---- MODULE Spec2Model ----
(***************************************************************************)
(* RadRVU: worklist screenshot -> extracted procedure items -> fuzzy match *)
(* against the procedure catalog -> study list -> grouped view, totals.    *)
(*                                                                         *)
(* Text is a sequence of one-character strings, so that the tokenizer, the *)
(* regular expressions and the abbreviation lookup are computed character  *)
(* by character as the code computes them.  Numbers the code keeps as      *)
(* floats are scaled integers: rvu in hundredths, confidence in percent.   *)
(***************************************************************************)
EXTENDS Integers, Sequences, FiniteSets, TLC

VARIABLES
    db,             \* useState(INITIAL_STUDY_DB): the procedure catalog
    studies,        \* useState<ScannedStudy[]>([])
    isGrouped,      \* useState(false)
    rvuRate,        \* useState(DEFAULT_RVU_RATE)
    isScanning,     \* useState(false)
    error,          \* useState<string | null>(null)
    lastImage,      \* useState<string | null>(null)
    displayStudies, \* useMemo over [studies, isGrouped]
    results,        \* useMemo over [studies, rvuRate]
    totals,         \* StudyTable's useMemo over [studies]
    uploads,        \* the processFile calls in flight, each with its position
    started,        \* number of processFile calls made so far
    now,            \* the value Date.now() returns
    response,       \* extracted: the last response reader.onloadend was given
    call,           \* the last call of a text function: its arguments and result
    storage,        \* localStorage: the entries rad_studies, rad_doctorName, ...
    metadata,       \* useState of doctorName, groupName and hospitalName
    running,        \* the component tree is mounted
    lastSave,       \* how the last persistence effect ended
    quota           \* whether localStorage.setItem has room left

vars == <<db, studies, isGrouped, rvuRate, isScanning, error, lastImage,
          displayStudies, results, totals, uploads, started, now, response, call,
          storage, metadata, running, lastSave, quota>>

-----------------------------------------------------------------------------
(* Bounds of the exploration.                                              *)

\* processFile calls in one run
MaxUploads == 2
\* ticks of the millisecond clock
MaxNow == 1

-----------------------------------------------------------------------------
(* Characters and JavaScript values that are not strings.                  *)

LowerLetters == <<"a","b","c","d","e","f","g","h","i","j","k","l","m",
                  "n","o","p","q","r","s","t","u","v","w","x","y","z">>
UpperLetters == <<"A","B","C","D","E","F","G","H","I","J","K","L","M",
                  "N","O","P","Q","R","S","T","U","V","W","X","Y","Z">>
Digits == {"0","1","2","3","4","5","6","7","8","9"}

Range(s) == {s[i] : i \in DOMAIN s}

\* the value of a property that is absent from a parsed JSON object
undefined == <<"undefined">>
\* ABBREVIATIONS is an object literal: a lookup of the key "constructor" finds
\* Object.prototype.constructor, the function Object (whose .length is 1)
ObjectFunction == <<"function Object">>
\* the result of a call that throws a TypeError
TypeError == <<"TypeError">>

IsString(v) == v \notin {undefined, ObjectFunction, TypeError}

\* a value a JavaScript condition takes as true: not undefined, not ''
Truthy(v) == v # undefined /\ v # << >>

SetMin(S) == CHOOSE m \in S : \A n \in S : m <= n
SetMax(S) == CHOOSE m \in S : \A n \in S : m >= n
Min2(a, b) == IF a <= b THEN a ELSE b
Max2(a, b) == IF a >= b THEN a ELSE b

-----------------------------------------------------------------------------
(* String functions.                                                       *)

UpperSet == Range(UpperLetters)
LowerOf == [c \in UpperSet |-> LowerLetters[CHOOSE i \in 1..26 : UpperLetters[i] = c]]
UpperOf == [c \in Range(LowerLetters) |-> UpperLetters[CHOOSE i \in 1..26 : LowerLetters[i] = c]]

toLowerChar(c) == IF c \in UpperSet THEN LowerOf[c] ELSE c
toUpperChar(c) == IF c \in DOMAIN UpperOf THEN UpperOf[c] ELSE c

\* String.prototype.toLowerCase, toUpperCase
toLowerCase(s) == [i \in 1..Len(s) |-> toLowerChar(s[i])]
toUpperCase(s) == [i \in 1..Len(s) |-> toUpperChar(s[i])]

\* the character class [a-z0-9]
Alnum == Range(LowerLetters) \cup Digits
IsAlnum(c) == c \in Alnum

\* the character class [a-z0-9/]
IsWordChar(c) == IsAlnum(c) \/ c = "/"

\* .replace(/[^a-z0-9]/g, '')
stripNonAlnum(s) == SelectSeq(s, IsAlnum)

\* .replace(/^[^a-z0-9]+|[^a-z0-9]+$/g, '')
trimNonAlnum(w) ==
    LET idx == {i \in 1..Len(w) : IsAlnum(w[i])}
    IN  IF idx = {} THEN << >> ELSE SubSeq(w, SetMin(idx), SetMax(idx))

\* .split(/[^a-z0-9/]/): the pieces between separators, empty pieces included
RECURSIVE splitFrom(_, _, _)
splitFrom(s, i, cur) ==
    IF i > Len(s) THEN <<cur>>
    ELSE IF IsWordChar(s[i]) THEN splitFrom(s, i + 1, Append(cur, s[i]))
    ELSE <<cur>> \o splitFrom(s, i + 1, << >>)

splitWords(s) == splitFrom(s, 1, << >>)

-----------------------------------------------------------------------------
(* Normalization.                                                          *)

ABBREVIATIONS ==
    <<"u","s">> :> <<"u","l","t","r","a","s","o","u","n","d">> @@
    <<"u","s","g">> :> <<"u","l","t","r","a","s","o","u","n","d">> @@
    <<"u","l","t","r","a","s","o","n","i","c">> :> <<"u","l","t","r","a","s","o","u","n","d">> @@
    <<"b","x">> :> <<"b","i","o","p","s","y">> @@
    <<"m","a","m","m","o">> :> <<"m","a","m","m","o","g","r","a","m">> @@
    <<"m","a","m","m","o","g","r","a","p","h","y">> :> <<"m","a","m","m","o","g","r","a","m">> @@
    <<"x","r">> :> <<"x","r","a","y">> @@
    <<"c","r">> :> <<"x","r","a","y">> @@
    <<"d","r">> :> <<"x","r","a","y">> @@
    <<"m","r">> :> <<"m","r","i">> @@
    <<"f","u">> :> <<"f","o","l","l","o","w","u","p">> @@
    <<"f","o","l","l","o","w","u","p">> :> <<"f","o","l","l","o","w","u","p">> @@
    <<"l","t","d">> :> <<"l","i","m","i","t","e","d">> @@
    <<"s","c","r">> :> <<"s","c","r","e","e","n","i","n","g">> @@
    <<"s","c","r","n">> :> <<"s","c","r","e","e","n","i","n","g">> @@
    <<"d","x">> :> <<"d","i","a","g","n","o","s","t","i","c">> @@
    <<"d","i","a","g">> :> <<"d","i","a","g","n","o","s","t","i","c">> @@
    <<"b","i","l">> :> <<"b","i","l","a","t","e","r","a","l">> @@
    <<"b","i","l","a","t">> :> <<"b","i","l","a","t","e","r","a","l">> @@
    <<"u","n","i","l","a","t">> :> <<"u","n","i","l","a","t","e","r","a","l">> @@
    <<"w">> :> <<"w","i","t","h">> @@
    <<"w","o">> :> <<"w","i","t","h","o","u","t">> @@
    <<"c","o","n","t">> :> <<"c","o","n","t","r","a","s","t">> @@
    <<"t","h","o","r">> :> <<"t","h","o","r","a","c","i","c">> @@
    <<"a","b","d">> :> <<"a","b","d","o","m","e","n">> @@
    <<"p","e","l","v">> :> <<"p","e","l","v","i","s">> @@
    <<"a","n","g">> :> <<"a","n","g","i","o">> @@
    <<"c","e","r","v">> :> <<"c","e","r","v","i","c","a","l">> @@
    <<"l","u","m","b">> :> <<"l","u","m","b","a","r">>

\* ABBREVIATIONS[low]: an own key, else a property inherited from
\* Object.prototype, else undefined.  "constructor" is the only inherited
\* property whose name is made of the characters a-z0-9 alone.
lookupAbbreviation(low) ==
    IF low \in DOMAIN ABBREVIATIONS THEN ABBREVIATIONS[low]
    ELSE IF low = <<"c","o","n","s","t","r","u","c","t","o","r">> THEN ObjectFunction
    ELSE undefined

normalizeToken(t) ==
    IF ~IsString(t) THEN TypeError      \* t.toLowerCase is not a function
    ELSE LET low == stripNonAlnum(toLowerCase(t))
             hit == lookupAbbreviation(low)
         IN  IF Truthy(hit) THEN hit ELSE low

lateralIgnoreSet == {<<"l","t">>, <<"r","t">>, <<"l","e","f","t">>, <<"r","i","g","h","t">>}
fillerIgnoreSet == {<<"t","h","e">>, <<"a","n","d">>, <<"f","o","r">>, <<"o","r">>, <<"o","f">>, <<"i","n">>}

IsNonEmpty(w) == Len(w) > 0
IsSignificant(w) ==
    Len(w) > 0 /\ w \notin lateralIgnoreSet /\ w \notin fillerIgnoreSet

\* the token list of a text; a text that is not a string throws
getSignificantWords(s) ==
    IF ~IsString(s) THEN TypeError
    ELSE LET parts == SelectSeq(splitWords(toLowerCase(s)), IsNonEmpty)
             mapped == [i \in 1..Len(parts) |->
                           normalizeToken(trimNonAlnum(parts[i]))]
         IN  SelectSeq(mapped, IsSignificant)

\* mutation: the size of the intersection of the two token sets
calculateWordOverlap_OfSets(s1, s2) ==
    Cardinality(Range(getSignificantWords(s1)) \cap Range(getSignificantWords(s2)))

\* the number of entries of s2's token list that are in s1's token set
calculateWordOverlap(s1, s2) ==
    LET words1 == Range(getSignificantWords(s1))
        words2 == getSignificantWords(s2)
    IN  Cardinality({i \in 1..Len(words2) : words2[i] \in words1})

-----------------------------------------------------------------------------
(* The procedure catalog (StudyDefinition[]) and the extracted items.      *)

CtHead    == [cpt |-> <<"7","0","4","5","0">>, name |-> <<"C","T"," ","H","e","a","d"," ","w","i","t","h","o","u","t"," ","c","o","n","t","r","a","s","t">>,
              rvu |-> 85, category |-> "CT"]
CtAbdPel  == [cpt |-> <<"7","4","1","7","6">>, name |-> <<"C","T"," ","A","b","d","o","m","e","n"," ","P","e","l","v","i","s">>,
              rvu |-> 174, category |-> "CT"]
CtAbd     == [cpt |-> <<"7","4","1","5","0">>, name |-> <<"C","T"," ","A","b","d","o","m","e","n">>,
              rvu |-> 119, category |-> "CT"]
UsAbd     == [cpt |-> <<"7","6","7","0","0">>, name |-> <<"U","S"," ","A","b","d","o","m","e","n">>,
              rvu |-> 81, category |-> "Ultrasound"]
MriBrain  == [cpt |-> <<"7","0","5","5","3">>, name |-> <<"M","R","I"," ","B","r","a","i","n"," ","w","i","t","h"," ","a","n","d"," ","w","i","t","h","o","u","t"," ","c","o","n","t","r","a","s","t">>,
              rvu |-> 229, category |-> "MRI"]
MammoScr  == [cpt |-> <<"7","7","0","6","7">>, name |-> <<"M","a","m","m","o","g","r","a","m"," ","S","c","r","e","e","n","i","n","g"," ","B","i","l","a","t","e","r","a","l"," ","(","M","a","m","m","o",")">>,
              rvu |-> 76, category |-> "Other"]

\* a code with its modifier, and an entry whose name starts with what the
\* other's code ends with
UsAbdPro  == [cpt |-> <<"7","6","7","0","0","-","2","6">>, name |-> <<"U","S"," ","A","b","d","o","m","e","n">>,
              rvu |-> 81, category |-> "Ultrasound"]
UsAbd26   == [cpt |-> <<"7","6","7","0","0">>, name |-> <<"2","6","-","U","S"," ","A","b","d","o","m","e","n">>,
              rvu |-> 40, category |-> "Ultrasound"]

\* INITIAL_STUDY_DB is imported from ./constants; these are catalogs of the
\* shape the data model describes
CatalogA == <<CtHead, CtAbdPel, UsAbd, MriBrain>>
CatalogB == <<UsAbd, MammoScr, CtAbdPel, CtAbd, CtHead>>
Catalogs == {CatalogA, CatalogB}
\* a catalog with '-' in a code and in a name
CatalogDash == <<UsAbdPro, UsAbd26, CtHead>>

\* the quantity of an item that has none: undefined, kept as a number no
\* response carries
MissingQuantity == -2

\* one element of the "studies" array of the extraction response
Item(cpt, name, quantity, originalText, confidence) ==
    [cpt |-> cpt, name |-> name, quantity |-> quantity,
     originalText |-> originalText, confidence |-> confidence]

ItHead      == Item(<<"7","0","4","5","0">>, <<"C","T"," ","H","e","a","d"," ","w","i","t","h","o","u","t"," ","c","o","n","t","r","a","s","t">>, 1, <<"C","T"," ","H","e","a","d"," ","W","/","O"," ","C","o","n","t","r","a","s","t">>, 95)
ItHeadLow   == Item(<<"7","0","4","5","0">>, <<"C","T"," ","H","e","a","d"," ","w","i","t","h","o","u","t"," ","c","o","n","t","r","a","s","t">>, 1, <<"c","t"," ","h","e","a","d"," ","w","o"," ","c","o","n","t","r","a","s","t">>, 70)
ItUsAbd     == Item(<<"7","6","7","0","0">>, <<"U","S"," ","A","b","d","o","m","e","n">>, 2, << >>, 80)
ItHand      == Item(<<"7","3","1","2","0">>, <<"U","n","k","n","o","w","n">>, 1, <<"L","e","f","t"," ","h","a","n","d">>, 40)
ItAbdPel    == Item(<<"7","4","1","7","6">>, <<"C","T"," ","A","b","d","o","m","e","n"," ","P","e","l","v","i","s">>, 2, <<"C","T"," ","A","b","d"," ","P","e","l","v","i","s">>, 90)
ItAbdNamed  == Item(<<"7","4","1","7","6">>, <<"C","T"," ","A","b","d","o","m","e","n"," ","P","e","l","v","i","s">>, 1, <<"C","T"," ","A","b","d">>, 60)
ItPelvis    == Item(<<"7","2","1","9","2">>, <<"C","T"," ","P","e","l","v","i","s">>, 1, <<"C","T"," ","P","e","l","v","i","s">>, 75)
ItBrainUs   == Item(<<"7","0","5","5","1">>, <<"B","r","a","i","n"," ","M","R","I">>, 1, <<"M","R","I"," ","b","r","a","i","n"," ","c","o","n","t","r","a","s","t"," ","U","S"," ","a","b","d">>, 55)
ItMammo     == Item(<<"7","7","0","6","7">>, <<"S","c","r","e","e","n","i","n","g"," ","m","a","m","m","o","g","r","a","m">>, 1, <<"S","c","r"," ","M","a","m","m","o"," ","B","i","l","a","t">>, 85)
ItSlash     == Item(<<"7","4","1","7","6">>, <<"C","T"," ","a","b","d","/","p","e","l","v">>, 1, <<"C","T"," ","a","b","d","/","p","e","l","v">>, 65)
ItUsLtd     == Item(<<"7","6","7","0","5">>, <<"U","S"," ","A","b","d","o","m","e","n">>, 0, <<"U","S"," ","a","b","d"," ","l","t","d">>, 88)
ItCtUs      == Item(<<"7","4","1","5","0">>, <<"A","b","d","o","m","e","n"," ","s","t","u","d","y">>, 1, <<"C","T"," ","U","S"," ","A","b","d","o","m","e","n">>, 45)
ItUs26      == Item(<<"7","6","7","0","0">>, <<"2","6","-","U","S"," ","A","b","d","o","m","e","n">>, 1, <<"2","6"," ","U","S"," ","A","b","d","o","m","e","n">>, 60)
ItNoQty     == Item(<<"7","0","4","8","6">>, <<"C","T"," ","H","e","a","d"," ","w","i","t","h","o","u","t"," ","c","o","n","t","r","a","s","t">>, MissingQuantity, <<"C","T"," ","H","e","a","d">>, 30)
ItNamed     == Item(<<"7","6","7","0","0">>, <<"U","S"," ","A","b","d","o","m","e","n">>, 1, undefined, 80)
ItNoName    == Item(<<"7","1","0","4","5">>, undefined, 1, <<"C","h","e","s","t"," ","f","i","l","m">>, 50)
ItNoText    == Item(undefined, undefined, 1, undefined, 50)

\* the items of the uploads of Spec, and of the single upload of SpecMatch
Items == {ItHead, ItHeadLow, ItUsAbd, ItHand}
MatchItems == {ItHead, ItUsAbd, ItHand, ItAbdPel, ItAbdNamed, ItPelvis, ItBrainUs,
               ItMammo, ItSlash, ItUsLtd, ItCtUs, ItNoQty, ItNoName, ItNoText}

\* the items of the upload of SpecKeys
DashItems == {ItUsAbd, ItUs26, ItHead}

SeqsUpTo2(S) == {<< >>} \cup {<<a>> : a \in S} \cup {<<a, b>> : a \in S, b \in S}
Batches == {<< >>, <<ItHead, ItHeadLow>>, <<ItUsAbd, ItHand>>}
MatchBatches == SeqsUpTo2(MatchItems)
DashBatches == SeqsUpTo2(DashItems)

-----------------------------------------------------------------------------
(* processFile: the matching of one extracted item.                        *)

Threw == -1

\* ex.originalText || ex.name
sourceText(ex) == IF Truthy(ex.originalText) THEN ex.originalText ELSE ex.name

\* mutation: a threshold capped at 2
thresholdOf_CappedAtTwo(sigWordsInDb) == Min2(2, Len(sigWordsInDb))

\* Math.min(4, sigWordsInDb.length)
thresholdOf(sigWordsInDb) == Min2(4, Len(sigWordsInDb))

\* mutation: an equal score replaces the entry held
exceedsBest_OrEquals(overlap, highestOverlap) == overlap >= highestOverlap

\* overlap > highestOverlap
exceedsBest(overlap, highestOverlap) == overlap > highestOverlap

\* mutation: the highest score wins without the threshold test
replacesBest_NoThreshold(overlap, threshold, highestOverlap) ==
    overlap > highestOverlap

\* overlap >= threshold && overlap > highestOverlap
replacesBest(overlap, threshold, highestOverlap) ==
    overlap >= threshold /\ exceedsBest(overlap, highestOverlap)

\* db.forEach(...): the index of the entry left in bestMatch, 0 for null
RECURSIVE overlapLoop(_, _, _, _, _)
overlapLoop(source, catalog, i, bestMatch, highestOverlap) ==
    IF i > Len(catalog) THEN bestMatch
    ELSE LET sigWordsInDb == getSignificantWords(catalog[i].name)
             overlap == calculateWordOverlap(source, catalog[i].name)
             threshold == thresholdOf(sigWordsInDb)
         IN  IF replacesBest(overlap, threshold, highestOverlap)
             THEN overlapLoop(source, catalog, i + 1, i, overlap)
             ELSE overlapLoop(source, catalog, i + 1, bestMatch, highestOverlap)

\* .toLowerCase().replace(/[^a-z0-9]/g, '')
normalizedName(s) == stripNonAlnum(toLowerCase(s))

\* db.find(...): the index of the first entry with that stripped name, 0 for none
findByName(catalog, normalizedExName) ==
    LET hits == {i \in 1..Len(catalog) :
                    normalizedName(catalog[i].name) = normalizedExName}
    IN  IF hits = {} THEN 0 ELSE SetMin(hits)

\* the entry the overlap loop selects for ex, 0 for none, Threw when the
\* source text is not a string (the loop body runs once the catalog is not empty)
overlapMatch(ex, catalog) ==
    IF Len(catalog) > 0 /\ ~IsString(sourceText(ex)) THEN Threw
    ELSE overlapLoop(sourceText(ex), catalog, 1, 0, 0)

\* bestMatch after the fallback: an index of the catalog, 0 for null, Threw
\* when ex.name.toLowerCase() is called on a name that is not a string
bestMatchOf(ex, catalog) ==
    LET byOverlap == overlapMatch(ex, catalog)
    IN  IF byOverlap # 0 THEN byOverlap
        ELSE IF ~IsString(ex.name) THEN Threw
        ELSE findByName(catalog, normalizedName(ex.name))

\* ex.quantity || 1
quantityOf(ex) == IF ex.quantity \notin {0, MissingQuantity} THEN ex.quantity ELSE 1

\* mutation: the row keeps the code the item came with
scannedStudy_ItemCode(ex, index, entry, t, rnd) ==
    [id |-> <<t, index, rnd>>, cpt |-> ex.cpt, name |-> entry.name,
     rvu |-> entry.rvu, quantity |-> quantityOf(ex),
     confidence |-> ex.confidence, originalText |-> ex.originalText]

\* the ScannedStudy built for item ex at (0-based) index of the response; t
\* and rnd are what Date.now() and Math.random() return for it (the items
\* of the model carry a confidence, so ex.confidence ?? 0.0 is ex.confidence)
scannedStudy(ex, index, entry, t, rnd) ==
    [id |-> <<t, index, rnd>>, cpt |-> entry.cpt, name |-> entry.name,
     rvu |-> entry.rvu, quantity |-> quantityOf(ex),
     confidence |-> ex.confidence, originalText |-> ex.originalText]

\* bestMatchOf is a function of the item and the catalog alone: tabulated
bestMatchTable ==
    [catalog \in Catalogs \cup {CatalogDash} |->
        [ex \in Items \cup MatchItems \cup DashItems \cup {ItNamed} |->
            bestMatchOf(ex, catalog)]]

\* the catalog index matched for each item of the response
matchesOf(extracted, catalog) ==
    [i \in 1..Len(extracted) |-> bestMatchTable[catalog][extracted[i]]]

\* an item threw inside extracted.map(...)
mapThrows(extracted, catalog) ==
    \E i \in 1..Len(extracted) : matchesOf(extracted, catalog)[i] = Threw

\* extracted.map(...).filter(Boolean)
processedOf(extracted, catalog, t, rnds) ==
    LET matches == matchesOf(extracted, catalog)
        IsMatched(i) == matches[i] > 0
        kept == SelectSeq([i \in 1..Len(extracted) |-> i], IsMatched)
    IN  [k \in 1..Len(kept) |->
            scannedStudy(extracted[kept[k]], kept[k] - 1,
                         catalog[matches[kept[k]]], t, rnds[kept[k]])]

-----------------------------------------------------------------------------
(* The derived values.                                                     *)

\* `${s.cpt}-${s.name}`
groupKey(s) == s.cpt \o <<"-">> \o s.name

\* mutation: the confidence of the last row of the key
mergeRow_LastConfidence(existing, s) ==
    [existing EXCEPT !.quantity = @ + s.quantity,
                     !.confidence = s.confidence,
                     !.originalText = undefined]

\* the value stored for a key that is already in groupedMap
mergeRow(existing, s) ==
    [existing EXCEPT !.quantity = @ + s.quantity,
                     !.confidence = Max2(@, s.confidence),
                     !.originalText = undefined]

\* the row set for a key seen for the first time, were its text dropped
firstRow_WithoutText(s) == [s EXCEPT !.originalText = undefined]

\* groupedMap.set(key, { ...s }): a copy of the row
firstRow(s) == s

\* studies.forEach(...) on groupedMap, a Map in insertion order, kept as the
\* sequence of its [key, value] entries
RECURSIVE groupFrom(_, _, _)
groupFrom(list, i, groupedMap) ==
    IF i > Len(list) THEN groupedMap
    ELSE LET s == list[i]
             key == groupKey(s)
             at == {j \in 1..Len(groupedMap) : groupedMap[j].key = key}
         IN  IF at # {}
             THEN LET j == CHOOSE j \in at : TRUE
                  IN  groupFrom(list, i + 1,
                          [groupedMap EXCEPT ![j].value = mergeRow(@, s)])
             ELSE groupFrom(list, i + 1,
                          Append(groupedMap, [key |-> key, value |-> firstRow(s)]))

computeDisplayStudies(list, grouped) ==
    IF ~grouped THEN list
    ELSE LET groupedMap == groupFrom(list, 1, << >>)
         IN  [j \in 1..Len(groupedMap) |-> groupedMap[j].value]

\* the description cell of a row of StudyTable, and of the PDF's table
descriptionCell(study, grouped) ==
    IF grouped THEN study.name
    ELSE IF study.originalText # undefined /\ study.originalText # << >>
         THEN study.originalText
         ELSE study.name

\* the subtotal cell of a row of StudyTable, and of the PDF's table
subtotalOf(study) == study.rvu * study.quantity

\* studies.reduce((acc, s) => acc + (s.rvu * s.quantity), 0)
RECURSIVE reduceRvu(_, _, _)
reduceRvu(list, i, acc) ==
    IF i > Len(list) THEN acc
    ELSE reduceRvu(list, i + 1, acc + (list[i].rvu * list[i].quantity))

\* studies.reduce((acc, s) => acc + s.quantity, 0)
RECURSIVE reduceQuantity(_, _, _)
reduceQuantity(list, i, acc) ==
    IF i > Len(list) THEN acc
    ELSE reduceQuantity(list, i + 1, acc + list[i].quantity)

\* mutation: studyCount counts the rows
computeResults_CountsRows(list, rate) ==
    LET totalRVU == reduceRvu(list, 1, 0)
    IN  [totalRVU |-> totalRVU,
         totalEarnings |-> totalRVU * rate,
         studyCount |-> Len(list)]

computeResults(list, rate) ==
    LET totalRVU == reduceRvu(list, 1, 0)
    IN  [totalRVU |-> totalRVU,
         totalEarnings |-> totalRVU * rate,
         studyCount |-> reduceQuantity(list, 1, 0)]

computeTotals(list) ==
    [rvu |-> reduceRvu(list, 1, 0), qty |-> reduceQuantity(list, 1, 0)]

\* what a render after the state change leaves in the three memos: each is
\* recomputed when one of its dependencies changed
resultsChanged == <<studies, rvuRate>>' # <<studies, rvuRate>>
displayChanged == <<studies, isGrouped>>' # <<studies, isGrouped>>
totalsChanged == studies' # studies

Render ==
    /\ displayStudies' = IF displayChanged
                         THEN computeDisplayStudies(studies', isGrouped')
                         ELSE displayStudies
    /\ results' = IF resultsChanged THEN computeResults(studies', rvuRate')
                  ELSE results
    /\ totals' = IF totalsChanged THEN computeTotals(studies') ELSE totals

-----------------------------------------------------------------------------
(* performOCRAndMatch: the call of the extraction service.                 *)

\* parsed JSON values, by their JavaScript type
Absent == [type |-> "undefined", items |-> << >>]
JsonNull == [type |-> "null", items |-> << >>]
JsonZero == [type |-> "zero", items |-> << >>]
JsonNumber == [type |-> "number", items |-> << >>]
JsonString == [type |-> "string", items |-> << >>]
JsonObject == [type |-> "object", items |-> << >>]
JsonArray(items) == [type |-> "array", items |-> items]
EmptyList == JsonArray(<< >>)

\* the left operand of || is kept: not undefined, null, 0 or ''
IsTruthyJson(v) == v.type \in {"number", "string", "object", "array"}

\* the build's environment: import.meta.env.VITE_GEMINI_API_KEY, and
\* process.env.API_KEY where the bundler defines process.env
Environments == [vite : {"key", "none"}, process : {"undefined", "none", "key"}]

\* response.text of a settled generateContent
StudiesValues ==
    {Absent, JsonNull, JsonZero, JsonNumber, JsonString, JsonObject, EmptyList,
     JsonArray(<<ItHead, ItUsAbd>>)}
ParsedTexts ==
    {[kind |-> "json", top |-> "null", studies |-> Absent],
     [kind |-> "json", top |-> "array", studies |-> Absent]}
    \cup {[kind |-> "json", top |-> "object", studies |-> s] : s \in StudiesValues}
ResponseTexts ==
    {[kind |-> "undefined", top |-> "none", studies |-> Absent],
     [kind |-> "unparsable", top |-> "none", studies |-> Absent]}
    \cup ParsedTexts

\* what the SDK does: the constructor given no key may throw, generateContent
\* rejects or resolves to a response
SdkOutcomes ==
    [constructorThrowsWithoutKey : BOOLEAN, transport : {"rejects"},
     text : {[kind |-> "undefined", top |-> "none", studies |-> Absent]}]
    \cup [constructorThrowsWithoutKey : BOOLEAN, transport : {"resolves"},
          text : ResponseTexts]

Resolved(value, requests) ==
    [settled |-> "resolved", value |-> value, requests |-> requests]
Rejected(requests) ==
    [settled |-> "rejected", value |-> Absent, requests |-> requests]

\* the try block: generateContent, JSON.parse(text || '{"studies": []}'),
\* data.studies || [], and [] from the catch
extractStudies(sdk) ==
    IF sdk.transport = "rejects" THEN Resolved(EmptyList, 1)
    ELSE IF sdk.text.kind = "undefined" THEN Resolved(EmptyList, 1)
    ELSE IF sdk.text.kind = "unparsable" THEN Resolved(EmptyList, 1)
    ELSE IF sdk.text.top = "null" THEN Resolved(EmptyList, 1)
    ELSE LET dataStudies == IF sdk.text.top = "object" THEN sdk.text.studies
                            ELSE Absent
         IN  Resolved(IF IsTruthyJson(dataStudies) THEN dataStudies ELSE EmptyList, 1)

\* services/geminiService.ts
performOCRAndMatch(env, sdk) ==
    IF env.vite = "key" THEN extractStudies(sdk)
    ELSE IF env.process = "undefined" THEN Rejected(0)   \* ReferenceError
    ELSE IF env.process = "none" THEN Resolved(EmptyList, 0)
    ELSE extractStudies(sdk)

\* the variant that reads import.meta inside a try of its own
performOCRAndMatchUniversalKey(env, sdk) ==
    IF env.vite = "key" THEN extractStudies(sdk)
    ELSE IF env.process = "undefined" THEN Rejected(0)
    ELSE IF env.process = "none" THEN Resolved(EmptyList, 0)
    ELSE extractStudies(sdk)

\* the variant without a key check: new GoogleGenAI({apiKey: process.env.API_KEY})
performOCRAndMatchNoKeyCheck(env, sdk) ==
    IF env.process = "undefined" THEN Rejected(0)
    ELSE IF env.process = "none" /\ sdk.constructorThrowsWithoutKey THEN Rejected(0)
    ELSE extractStudies(sdk)

-----------------------------------------------------------------------------
(* The application state and its handlers.                                 *)

\* DEFAULT_RVU_RATE is imported from ./constants
DEFAULT_RVU_RATE == 50

\* parseFloat(e.target.value) || 0 of the rate input
Rates == {0, DEFAULT_RVU_RATE}

PngFile  == [type |-> "image/png", ext |-> "png"]
HeicFile == [type |-> "image/heic", ext |-> "heic"]
PdfFile  == [type |-> "application/pdf", ext |-> "pdf"]
Files == {PngFile, HeicFile, PdfFile}

isHeic(file) ==
    file.type \in {"image/heic", "image/heif"} \/ file.ext \in {"heic", "heif"}

\* mutation: the type check lets every file through
isImageType_AnyType(type) == TRUE

\* targetFile.type.startsWith('image/')
isImageType(type) == type \in {"image/png", "image/jpeg", "image/heic", "image/heif"}

NoError == "null"
HeicError == "Could not convert HEIC file. Please use JPEG or PNG."
TypeMessage == "Please upload a valid image file."
AnalysisError == "AI Analysis failed. Check image quality."

NoImage == 0

NoResponse == [received |-> FALSE, extracted |-> << >>]

NoCall == [fn |-> "none", args |-> << >>, ret |-> << >>]

\* a localStorage entry: getItem gives null, or the string last set
NoEntry == [type |-> "null", text |-> << >>]
Stored(text) == [type |-> "string", text |-> text]

\* JSON.stringify of a row: a property whose value is undefined is left out
stringifyRow(s) ==
    IF s.originalText = undefined
    THEN [f \in DOMAIN s \ {"originalText"} |-> s[f]]
    ELSE s

\* JSON.stringify(studies)
stringify(list) == [i \in 1..Len(list) |-> stringifyRow(list[i])]

MetadataFields == {"doctorName", "groupName", "hospitalName"}
MetadataValues == {<< >>, <<"D","r">>}

\* the effect over [studies]: setItem in a try, console.warn in its catch;
\* base is localStorage as the handler left it
persistStudies(base) ==
    IF studies' = studies
    THEN storage' = base /\ lastSave' = lastSave
    ELSE IF quota = "free"
         THEN /\ storage' = [base EXCEPT !.rad_studies = Stored(stringify(studies'))]
              /\ lastSave' = "written"
         ELSE /\ storage' = base
              /\ lastSave' = "warned"

\* the effect over [doctorName, groupName, hospitalName]: three setItem
\* calls outside any try; what the first throws leaves the effect and
\* React takes the tree down
persistMetadata ==
    IF quota = "free"
    THEN /\ storage' = [storage EXCEPT !.rad_doctorName = Stored(metadata'.doctorName),
                                        !.rad_groupName = Stored(metadata'.groupName),
                                        !.rad_hospitalName = Stored(metadata'.hospitalName)]
         /\ lastSave' = "written"
         /\ running' = running
    ELSE /\ storage' = storage
         /\ lastSave' = "thrown"
         /\ running' = FALSE

\* a render after a state change, with the effects it schedules
Commit == Render /\ persistStudies(storage)

\* the state once the component is mounted over the catalogs and over the
\* lists the mount effect restores from localStorage ('rad_studies')
InitFrom(catalogs, lists) ==
    /\ db \in catalogs
    /\ studies \in lists
    /\ isGrouped = FALSE
    /\ rvuRate = DEFAULT_RVU_RATE
    /\ isScanning = FALSE
    /\ error = NoError
    /\ lastImage = NoImage
    /\ displayStudies = computeDisplayStudies(studies, FALSE)
    /\ results = computeResults(studies, DEFAULT_RVU_RATE)
    /\ totals = computeTotals(studies)
    /\ uploads = {}
    /\ started = 0
    /\ now = 0
    /\ response = NoResponse
    /\ call = NoCall
    /\ metadata = [f \in MetadataFields |-> << >>]
    /\ storage = [rad_studies |-> Stored(stringify(studies)),
                  rad_doctorName |-> Stored(<< >>),
                  rad_groupName |-> Stored(<< >>),
                  rad_hospitalName |-> Stored(<< >>)]
    /\ running = TRUE
    /\ lastSave = "written"
    /\ quota = "free"

InitWith(catalogs) == InitFrom(catalogs, {<< >>})

Init == InitWith({CatalogA})

\* processFile up to its first await.  The file input is disabled while
\* isScanning; the drop handler is not.
processFile(file, via) ==
    /\ started < MaxUploads
    /\ via = "input" => ~isScanning
    /\ started' = started + 1
    /\ IF isHeic(file)
       THEN /\ uploads' = uploads \cup
                  {[n |-> started + 1, pc |-> "heic2any"]}
            /\ isScanning' = TRUE
            /\ error' = NoError
       ELSE IF ~isImageType(file.type)
       THEN /\ uploads' = uploads
            /\ isScanning' = FALSE
            /\ error' = TypeMessage
       ELSE /\ uploads' = uploads \cup
                  {[n |-> started + 1, pc |-> "readAsDataURL"]}
            /\ isScanning' = TRUE
            /\ error' = NoError
    /\ UNCHANGED <<db, studies, isGrouped, rvuRate, lastImage, now, response, call, metadata,
                   running, quota>>
    /\ Commit

\* heic2any settles: the converted JPEG goes on to the reader, a rejection
\* sets the message and ends the call
heic2anySettled(u, ok) ==
    /\ u \in uploads
    /\ u.pc = "heic2any"
    /\ IF ok
       THEN /\ uploads' = (uploads \ {u}) \cup {[u EXCEPT !.pc = "readAsDataURL"]}
            /\ UNCHANGED <<isScanning, error>>
       ELSE /\ uploads' = uploads \ {u}
            /\ isScanning' = FALSE
            /\ error' = HeicError
    /\ UNCHANGED <<db, studies, isGrouped, rvuRate, lastImage, started, now, response, call, metadata,
                   running, quota>>
    /\ Commit

\* reader.onloadend up to its await of performOCRAndMatch
onloadend(u) ==
    /\ u \in uploads
    /\ u.pc = "readAsDataURL"
    /\ lastImage' = u.n
    /\ uploads' = (uploads \ {u}) \cup {[u EXCEPT !.pc = "performOCRAndMatch"]}
    /\ UNCHANGED <<db, studies, isGrouped, rvuRate, isScanning, error, started,
                   now, response, call, metadata,
                   running, quota>>
    /\ Commit

\* the rest of reader.onloadend, once performOCRAndMatch has resolved to
\* extracted; t is what Date.now() returns (the clock does not run backwards)
\* and rnds[i] what Math.random() returns for the i-th item
matched(u, extracted, t, rnds) ==
    /\ u \in uploads
    /\ u.pc = "performOCRAndMatch"
    /\ t >= now
    /\ now' = t
    /\ IF mapThrows(extracted, db)
       THEN /\ error' = AnalysisError
            /\ studies' = studies
       ELSE /\ studies' = studies \o processedOf(extracted, db, t, rnds)
            /\ error' = error
    /\ isScanning' = FALSE
    /\ uploads' = uploads \ {u}
    /\ response' = [received |-> TRUE, extracted |-> extracted]
    /\ UNCHANGED <<db, isGrouped, rvuRate, lastImage, started, call, metadata,
                   running, quota>>
    /\ Commit

\* the catch, were there no finally after it
analysisFailed_WithoutFinally(u, settled) ==
    /\ u \in uploads
    /\ u.pc = "performOCRAndMatch"
    /\ settled.settled = "rejected" \/ settled.value.type # "array"
    /\ error' = AnalysisError
    /\ uploads' = uploads \ {u}
    /\ UNCHANGED <<db, studies, isGrouped, rvuRate, isScanning, lastImage, started,
                   now, response, call, metadata, running, quota>>
    /\ Commit

\* the rest of reader.onloadend when performOCRAndMatch rejects, or resolves
\* to a value that has no map method: the catch and the finally
analysisFailed(u, settled) ==
    /\ u \in uploads
    /\ u.pc = "performOCRAndMatch"
    /\ settled.settled = "rejected" \/ settled.value.type # "array"
    /\ error' = AnalysisError
    /\ isScanning' = FALSE
    /\ uploads' = uploads \ {u}
    /\ UNCHANGED <<db, studies, isGrouped, rvuRate, lastImage, started, now,
                   response, call, metadata,
                   running, quota>>
    /\ Commit

\* setStudies(prev => prev.filter(s => s.id !== id))
deleteStudy(prev, id) ==
    LET Keeps(s) == s.id # id
    IN  SelectSeq(prev, Keeps)

\* studies.filter(s => s.cpt === study.cpt && s.name === study.name).map(s => s.id)
idsToDelete(list, study) ==
    LET SameGroup(s) == s.cpt = study.cpt /\ s.name = study.name
        hit == SelectSeq(list, SameGroup)
    IN  [i \in 1..Len(hit) |-> hit[i].id]

\* idsToDelete.forEach(id => onDelete(id)): the queued updaters run in order
RECURSIVE deleteAll(_, _, _)
deleteAll(prev, ids, i) ==
    IF i > Len(ids) THEN prev
    ELSE deleteAll(deleteStudy(prev, ids[i]), ids, i + 1)

\* StudyTable.handleDelete on row k of the table (the table is rendered
\* only when studies is not empty)
handleDelete(k) ==
    /\ Len(studies) > 0
    /\ k \in 1..Len(displayStudies)
    /\ LET study == displayStudies[k]
       IN  /\ studies' = IF isGrouped
                         THEN deleteAll(studies, idsToDelete(studies, study), 1)
                         ELSE deleteStudy(studies, study.id)
    /\ UNCHANGED <<db, isGrouped, rvuRate, isScanning, error, lastImage, uploads,
                   started, now, response, call, metadata,
                   running, quota>>
    /\ Commit

\* the toggle, were the grouped rows stored back into the list
setIsGrouped_StoresGroupedRows ==
    /\ Len(studies) > 0
    /\ isGrouped' = ~isGrouped
    /\ studies' = computeDisplayStudies(studies, ~isGrouped)
    /\ UNCHANGED <<db, rvuRate, isScanning, error, lastImage, uploads,
                   started, now, response, call, metadata,
                   running, quota>>
    /\ Commit

\* the Consolidate button of StudyTable: setIsGrouped(!isGrouped)
setIsGrouped ==
    /\ Len(studies) > 0
    /\ isGrouped' = ~isGrouped
    /\ UNCHANGED <<db, studies, rvuRate, isScanning, error, lastImage, uploads,
                   started, now, response, call, metadata,
                   running, quota>>
    /\ Commit

\* the rate input's onChange
setRvuRate(rate) ==
    /\ rate # rvuRate
    /\ rvuRate' = rate
    /\ UNCHANGED <<db, studies, isGrouped, isScanning, error, lastImage, uploads,
                   started, now, response, call, metadata,
                   running, quota>>
    /\ Commit

\* clearAll, confirmed in the dialog (the button is shown only when studies
\* is not empty; a dismissed dialog changes nothing)
clearAll ==
    /\ Len(studies) > 0
    /\ studies' = << >>
    /\ lastImage' = NoImage
    /\ UNCHANGED <<db, isGrouped, rvuRate, isScanning, error, uploads, started,
                   now, response, call, metadata,
                   running, quota>>
    /\ Render
    /\ persistStudies([storage EXCEPT !.rad_studies = NoEntry])

\* the onChange of the three report fields
setMetadata(field, value) ==
    /\ value # metadata[field]
    /\ metadata' = [metadata EXCEPT ![field] = value]
    /\ persistMetadata
    /\ UNCHANGED <<db, studies, isGrouped, rvuRate, isScanning, error, lastImage,
                   uploads, started, now, response, call, quota>>
    /\ Render

\* the browser: the origin's storage fills up, or room is made
setQuota(q) ==
    /\ q # quota
    /\ quota' = q
    /\ UNCHANGED <<db, studies, isGrouped, rvuRate, isScanning, error, lastImage,
                   displayStudies, results, totals, uploads, started, now,
                   response, call, storage, metadata, running, lastSave>>

\* texts of the entry rad_studies that no save effect wrote: one that is no
\* JSON, and the JSON of a value that is no array
NotJson == <<[json |-> "SyntaxError"]>>
NotAList == <<[json |-> "null"]>>

\* JSON.parse of a text stringify wrote: a property that was left out reads
\* as undefined
parseRow(r) ==
    [f \in DOMAIN r \cup {"originalText"} |->
        IF f \in DOMAIN r THEN r[f] ELSE undefined]
parseStudies(text) == [i \in 1..Len(text) |-> parseRow(text[i])]

\* localStorage.getItem(key) || ''
metadataFrom(entry) == IF entry.type = "string" THEN entry.text ELSE << >>

\* the mount, were the save effect not run again after the restore
mount_SavedOnce ==
    LET saved == storage.rad_studies
        parses == saved.type = "string" /\ saved.text # NotJson
        firstRun == storage.rad_doctorName = NoEntry
    IN  /\ ~running
        /\ lastSave = "none"
        /\ metadata' = [doctorName |-> metadataFrom(storage.rad_doctorName),
                        groupName |-> metadataFrom(storage.rad_groupName),
                        hospitalName |-> metadataFrom(storage.rad_hospitalName)]
        /\ IF quota = "full" /\ firstRun
           THEN /\ storage' = storage
                /\ lastSave' = "thrown"
                /\ running' = FALSE
                /\ studies' = studies
           ELSE /\ lastSave' = "written"
                /\ IF parses /\ saved.text = NotAList
                   THEN /\ running' = FALSE
                        /\ studies' = studies
                   ELSE /\ running' = TRUE
                        /\ studies' = IF parses THEN parseStudies(saved.text)
                                      ELSE << >>
                /\ storage' =
                      [rad_studies |-> Stored(stringify(<< >>)),
                       rad_doctorName |-> Stored(metadata'.doctorName),
                       rad_groupName |-> Stored(metadata'.groupName),
                       rad_hospitalName |-> Stored(metadata'.hospitalName)]
        /\ UNCHANGED <<db, isGrouped, rvuRate, isScanning, error, lastImage,
                       uploads, started, now, response, call, quota>>
        /\ Render

\* the first commit with its three effects (the metadata entries are set,
\* rad_studies is read and given to setStudies, the empty list is saved),
\* and the render that setStudies brings with the save effect run again.
\* In a storage with no room left setItem fails where it adds an entry, in
\* the first run; later every value set is one read from the storage, or
\* no longer than the one it replaces
mount ==
    LET saved == storage.rad_studies
        parses == saved.type = "string" /\ saved.text # NotJson
        firstRun == storage.rad_doctorName = NoEntry
    IN  /\ ~running
        /\ lastSave = "none"
        /\ metadata' = [doctorName |-> metadataFrom(storage.rad_doctorName),
                        groupName |-> metadataFrom(storage.rad_groupName),
                        hospitalName |-> metadataFrom(storage.rad_hospitalName)]
        /\ IF quota = "full" /\ firstRun
           THEN /\ storage' = storage
                /\ lastSave' = "thrown"
                /\ running' = FALSE
                /\ studies' = studies
           ELSE /\ lastSave' = "written"
                /\ IF parses /\ saved.text = NotAList
                   THEN /\ running' = FALSE
                        /\ studies' = studies
                   ELSE /\ running' = TRUE
                        /\ studies' = IF parses THEN parseStudies(saved.text)
                                      ELSE << >>
                /\ storage' =
                      [rad_studies |-> Stored(stringify(studies')),
                       rad_doctorName |-> Stored(metadata'.doctorName),
                       rad_groupName |-> Stored(metadata'.groupName),
                       rad_hospitalName |-> Stored(metadata'.hospitalName)]
        /\ UNCHANGED <<db, isGrouped, rvuRate, isScanning, error, lastImage,
                       uploads, started, now, response, call, quota>>
        /\ Render

\* the values Math.random() returns
RandomValues == {0, 1}

Next ==
    \/ \E file \in Files, via \in {"input", "drop"} : processFile(file, via)
    \/ \E u \in uploads, ok \in BOOLEAN : heic2anySettled(u, ok)
    \/ \E u \in uploads : onloadend(u)
    \/ \E u \in uploads, extracted \in Batches :
          \E t \in 0..MaxNow, rnds \in [1..Len(extracted) -> RandomValues] :
              matched(u, extracted, t, rnds)
    \/ \E u \in uploads, env \in Environments, sdk \in SdkOutcomes :
          analysisFailed(u, performOCRAndMatch(env, sdk))
    \/ \E k \in 1..Len(displayStudies) : handleDelete(k)
    \/ setIsGrouped
    \/ \E rate \in Rates : setRvuRate(rate)
    \/ clearAll

Spec == Init /\ [][Next]_vars

\* the awaited operation of upload n settles: heic2any, the FileReader, or
\* performOCRAndMatch with the matching that follows it
UploadStep(n) ==
    \E u \in uploads :
        /\ u.n = n
        /\ \/ \E ok \in BOOLEAN : heic2anySettled(u, ok)
           \/ onloadend(u)
           \/ \E extracted \in Batches :
                 \E t \in 0..MaxNow, rnds \in [1..Len(extracted) -> RandomValues] :
                     matched(u, extracted, t, rnds)
           \/ \E env \in Environments, sdk \in SdkOutcomes :
                 analysisFailed(u, performOCRAndMatch(env, sdk))

\* uploads, deletions and clear-all
NextLive ==
    \/ \E file \in Files, via \in {"input", "drop"} : processFile(file, via)
    \/ \E n \in 1..MaxUploads : UploadStep(n)
    \/ \E k \in 1..Len(displayStudies) : handleDelete(k)
    \/ clearAll

\* every awaited operation completes or fails
SpecLive ==
    Init /\ [][NextLive]_vars /\ \A n \in 1..MaxUploads : WF_vars(UploadStep(n))

-----------------------------------------------------------------------------
(* One upload from the empty list, over every catalog and the wider set of *)
(* extraction responses: the matching of processFile.                      *)

InitMatch == InitWith(Catalogs)

NextMatch ==
    \/ \E file \in Files : started = 0 /\ processFile(file, "input")
    \/ \E u \in uploads, ok \in BOOLEAN : heic2anySettled(u, ok)
    \/ \E u \in uploads : onloadend(u)
    \/ \E u \in uploads, extracted \in MatchBatches :
          \E t \in 0..MaxNow, rnds \in [1..Len(extracted) -> RandomValues] :
              matched(u, extracted, t, rnds)

SpecMatch == InitMatch /\ [][NextMatch]_vars

-----------------------------------------------------------------------------
(* Uploads and deletions over a list that holds the rows of an earlier     *)
(* response.                                                               *)

\* the rows of the response [CT Head, CT Head] handled at time 0
EarlierRows ==
    processedOf(<<ItHead, ItHeadLow>>, CatalogA, 0, [i \in 1..2 |-> 0])

InitOverlap == InitFrom({CatalogA}, {EarlierRows})

SpecOverlap == InitOverlap /\ [][Next]_vars

-----------------------------------------------------------------------------
(* One upload, deletions and the report fields over a storage that can     *)
(* fill up.                                                                *)

NextStore ==
    /\ running
    /\ \/ \E file \in Files : started = 0 /\ processFile(file, "input")
       \/ \E u \in uploads, ok \in BOOLEAN : heic2anySettled(u, ok)
       \/ \E u \in uploads : onloadend(u)
       \/ \E u \in uploads, extracted \in Batches :
             \E t \in 0..MaxNow, rnds \in [1..Len(extracted) -> RandomValues] :
                 matched(u, extracted, t, rnds)
       \/ \E k \in 1..Len(displayStudies) : handleDelete(k)
       \/ clearAll
       \/ \E field \in MetadataFields, value \in MetadataValues :
             setMetadata(field, value)
       \/ \E q \in {"free", "full"} : setQuota(q)

SpecStore == Init /\ [][NextStore]_vars

-----------------------------------------------------------------------------
(* Uploads, grouping and deletions over a catalog with '-' in a code and   *)
(* in a name.                                                              *)

InitKeys == InitWith({CatalogDash})

NextKeys ==
    \/ \E file \in Files : processFile(file, "drop")
    \/ \E u \in uploads, ok \in BOOLEAN : heic2anySettled(u, ok)
    \/ \E u \in uploads : onloadend(u)
    \/ \E u \in uploads, extracted \in DashBatches :
          \E rnds \in [1..Len(extracted) -> RandomValues] :
              matched(u, extracted, now, rnds)
    \/ \E k \in 1..Len(displayStudies) : handleDelete(k)
    \/ setIsGrouped
    \/ clearAll

SpecKeys == InitKeys /\ [][NextKeys]_vars

-----------------------------------------------------------------------------
(* The mount over what an earlier session left in localStorage, and one    *)
(* upload, deletions and clear-all after it.                               *)

\* a list with a row that has no originalText
NamedRows == processedOf(<<ItNamed, ItHead>>, CatalogA, 0, [i \in 1..2 |-> 1])

SavedEntries ==
    {NoEntry, Stored(NotJson), Stored(NotAList)}
    \cup {Stored(stringify(list)) : list \in {<< >>, EarlierRows, NamedRows}}

\* the storage of a first run, and what an earlier session left
SavedStorages ==
    {[rad_studies |-> NoEntry, rad_doctorName |-> NoEntry,
      rad_groupName |-> NoEntry, rad_hospitalName |-> NoEntry]}
    \cup {[rad_studies |-> saved, rad_doctorName |-> Stored(name),
           rad_groupName |-> Stored(<< >>), rad_hospitalName |-> Stored(<< >>)] :
              saved \in SavedEntries, name \in MetadataValues}

InitMount ==
    /\ db = CatalogA
    /\ studies = << >>
    /\ isGrouped = FALSE
    /\ rvuRate = DEFAULT_RVU_RATE
    /\ isScanning = FALSE
    /\ error = NoError
    /\ lastImage = NoImage
    /\ displayStudies = << >>
    /\ results = computeResults(<< >>, DEFAULT_RVU_RATE)
    /\ totals = computeTotals(<< >>)
    /\ uploads = {}
    /\ started = 0
    /\ now = 0
    /\ response = NoResponse
    /\ call = NoCall
    /\ metadata = [f \in MetadataFields |-> << >>]
    /\ storage \in SavedStorages
    /\ running = FALSE
    /\ lastSave = "none"
    /\ quota \in {"free", "full"}

NextMount ==
    \/ mount
    \/ /\ running
       /\ \/ \E file \in Files : started = 0 /\ processFile(file, "input")
          \/ \E u \in uploads, ok \in BOOLEAN : heic2anySettled(u, ok)
          \/ \E u \in uploads : onloadend(u)
          \/ \E u \in uploads, extracted \in Batches :
                \E t \in 0..MaxNow, rnds \in [1..Len(extracted) -> RandomValues] :
                    matched(u, extracted, t, rnds)
          \/ \E k \in 1..Len(displayStudies) : handleDelete(k)
          \/ setIsGrouped
          \/ clearAll
          \/ \E q \in {"free", "full"} : setQuota(q)

SpecMount == InitMount /\ [][NextMount]_vars

-----------------------------------------------------------------------------
(* The text functions applied to bounded sets of tokens and texts.         *)

AbbreviationKeys == DOMAIN ABBREVIATIONS
CanonicalForms == {ABBREVIATIONS[k] : k \in AbbreviationKeys}

\* a key with punctuation character c put after its first character
punctuatedInside(k, c) == <<k[1], c>> \o SubSeq(k, 2, Len(k))

\* source texts that hold key k: in either case, with punctuation around it,
\* next to another word, and with punctuation inside it
VariantsOf(k) ==
    { k, toUpperCase(k), k \o <<".">>, <<"(">> \o k \o <<")">>, k \o <<"/">>,
      <<"c","t"," ">> \o k \o <<","," ","c","h","e","s","t">>, <<"-">> \o toUpperCase(k) \o <<":">>,
      k \o <<"/","p","e","l","v">>, <<"w","/">> \o k }
    \cup (IF Len(k) > 1 THEN {punctuatedInside(k, "/"), punctuatedInside(k, ".")}
          ELSE {})

Tokens ==
    AbbreviationKeys \cup CanonicalForms \cup lateralIgnoreSet \cup fillerIgnoreSet
    \cup {toUpperCase(k) : k \in AbbreviationKeys}
    \cup {k \o <<".">> : k \in AbbreviationKeys}
    \cup {<< >>, <<"c","t">>, <<"C","T">>, <<"w","/","o">>, <<"W","/","O">>, <<"x","-","r","a","y">>, <<"h","e","a","d">>, <<"2">>,
          <<"c","o","n","s","t","r","u","c","t","o","r">>, <<"C","o","n","s","t","r","u","c","t","o","r">>}

Texts == UNION {VariantsOf(k) : k \in AbbreviationKeys}

ExtractedTexts ==
    {sourceText(ex) : ex \in {x \in MatchItems : IsString(sourceText(x))}}
    \cup {<<"C","T"," ","C","T"," ","h","e","a","d"," ","h","e","a","d"," ","w","/","o"," ","c","o","n","t">>, <<"m","a","m","m","o">>, <<"B","i","l","a","t"," ","s","c","r","e","e","n","i","n","g"," ","m","a","m","m","o"," ","b","i","l","a","t">>}
CatalogNames == {c[i].name : c \in Catalogs, i \in 1..4} \cup {CatalogB[5].name}

AppUnchanged ==
    UNCHANGED <<db, studies, isGrouped, rvuRate, isScanning, error, lastImage,
                displayStudies, results, totals, uploads, started, now, response,
                storage, metadata, running, lastSave, quota>>

CallNormalizeToken(t) ==
    /\ call' = [fn |-> "normalizeToken", args |-> <<t>>, ret |-> normalizeToken(t)]
    /\ AppUnchanged

CallGetSignificantWords(s) ==
    /\ call' = [fn |-> "getSignificantWords", args |-> <<s>>,
                ret |-> getSignificantWords(s)]
    /\ AppUnchanged

CallCalculateWordOverlap(s1, s2) ==
    /\ call' = [fn |-> "calculateWordOverlap", args |-> <<s1, s2>>,
                ret |-> calculateWordOverlap(s1, s2)]
    /\ AppUnchanged

NextText ==
    \/ \E t \in Tokens : CallNormalizeToken(t)
    \/ \E s \in Texts : CallGetSignificantWords(s)
    \/ \E s1 \in ExtractedTexts, s2 \in CatalogNames : CallCalculateWordOverlap(s1, s2)

SpecText == Init /\ [][NextText]_vars

-----------------------------------------------------------------------------
(* performOCRAndMatch and its variants over the environments and the       *)
(* outcomes of the service.                                                *)

Variants == {"geminiService", "universalKey", "noKeyCheck"}

CallPerformOCRAndMatch(variant, env, sdk) ==
    /\ call' = [fn |-> "performOCRAndMatch", args |-> <<variant, env, sdk>>,
                ret |-> CASE variant = "geminiService" -> performOCRAndMatch(env, sdk)
                          [] variant = "universalKey" ->
                                performOCRAndMatchUniversalKey(env, sdk)
                          [] variant = "noKeyCheck" ->
                                performOCRAndMatchNoKeyCheck(env, sdk)]
    /\ AppUnchanged

NextOcr ==
    \E variant \in Variants, env \in Environments, sdk \in SdkOutcomes :
        CallPerformOCRAndMatch(variant, env, sdk)

SpecOcr == Init /\ [][NextOcr]_vars

-----------------------------------------------------------------------------
(* Definitions used to state the properties.                               *)

RECURSIVE SumOver(_, _)
SumOver(S, f) ==
    IF S = {} THEN 0
    ELSE LET x == CHOOSE x \in S : TRUE IN f[x] + SumOver(S \ {x}, f)

TokenSet(s) == Range(getSignificantWords(s))
SharedTokens(text, name) == Cardinality(TokenSet(text) \cap TokenSet(name))
TokenCount(name) == Len(getSignificantWords(name))

AfterMatched == response.received
Extracted == response.extracted

\* the rows of the list built for the i-th item of the response (SpecMatch:
\* the list holds the rows of one response)
RowsFor(i) == {k \in DOMAIN studies : studies[k].id[2] = i - 1}
IsEntry(row, entry) ==
    row.cpt = entry.cpt /\ row.name = entry.name /\ row.rvu = entry.rvu

HasText(ex) == IsString(sourceText(ex))
Score(ex, entry) == calculateWordOverlap(sourceText(ex), entry.name)
MeetsThreshold(ex, entry) ==
    /\ HasText(ex)
    /\ Score(ex, entry) >= Min2(4, TokenCount(entry.name))
    /\ Score(ex, entry) > 0
SameStrippedName(ex, entry) ==
    IsString(ex.name) /\ normalizedName(ex.name) = normalizedName(entry.name)

-----------------------------------------------------------------------------
-----------------------------------------------------------------------------
TopScore(ex) == SetMax({Score(ex, db[e]) : e \in 1..Len(db)})
TopEntries(ex) == {e \in 1..Len(db) : Score(ex, db[e]) = TopScore(ex)}

(* C2: the candidate is the entry with the highest overlap score of the    *)
(* whole catalog; it is accepted only if it meets its own threshold, and   *)
(* when it does not, no lower-scoring entry is accepted by overlap: the    *)
(* item goes to the exact-name fallback.                                   *)
C2_AsClaimed ==
    AfterMatched =>
        \A i \in 1..Len(Extracted) :
            HasText(Extracted[i]) =>
                \A k \in RowsFor(i) :
                    \/ \E e \in TopEntries(Extracted[i]) :
                          /\ MeetsThreshold(Extracted[i], db[e])
                          /\ IsEntry(studies[k], db[e])
                    \/ /\ \A e \in TopEntries(Extracted[i]) :
                             ~MeetsThreshold(Extracted[i], db[e])
                       /\ \E e \in 1..Len(db) :
                             /\ SameStrippedName(Extracted[i], db[e])
                             /\ IsEntry(studies[k], db[e])

AcceptedEntries(ex) == {e \in 1..Len(db) : MeetsThreshold(ex, db[e])}
BestAccepted(ex) ==
    {e \in AcceptedEntries(ex) :
        \A f \in AcceptedEntries(ex) : Score(ex, db[f]) <= Score(ex, db[e])}

(* C2, amended: the entry accepted by overlap is one with the highest      *)
(* score among the entries that meet their own threshold; an entry that    *)
(* scores higher but misses its own threshold does not keep a lower-       *)
(* scoring entry from being accepted; the item goes to the exact-name      *)
(* fallback only when no entry meets its threshold.  The accepted entry is *)
(* read from the row appended for the item; a rejected response appends    *)
(* no row.                                                                 *)
C2_BestAmongAccepted ==
    AfterMatched =>
        \A i \in 1..Len(Extracted) :
            HasText(Extracted[i]) =>
                IF AcceptedEntries(Extracted[i]) # {}
                THEN \/ error = AnalysisError
                     \/ /\ Cardinality(RowsFor(i)) = 1
                        /\ \A k \in RowsFor(i) :
                              \E e \in BestAccepted(Extracted[i]) :
                                  IsEntry(studies[k], db[e])
                ELSE \A k \in RowsFor(i) :
                        \E e \in 1..Len(db) :
                            /\ SameStrippedName(Extracted[i], db[e])
                            /\ IsEntry(studies[k], db[e])

\* MRI Brain scores 3 of its 5 tokens (threshold 4), US Abdomen 2 of 2: the
\* row is US Abdomen
C2_Witness ==
    /\ AfterMatched
    /\ db = CatalogA
    /\ Extracted = <<ItBrainUs>>
    /\ Score(ItBrainUs, MriBrain) = 3
    /\ ~MeetsThreshold(ItBrainUs, MriBrain)
    /\ Len(studies) = 1
    /\ IsEntry(studies[1], UsAbd)

-----------------------------------------------------------------------------
(* C3: calculateWordOverlap(extractedText, catalogName) is the size of the *)
(* intersection of the two token sets, also when a token occurs more than  *)
(* once in either text.                                                    *)
C3_AsClaimed ==
    call.fn = "calculateWordOverlap" =>
        call.ret = SharedTokens(call.args[1], call.args[2])

Occurrences(w, words) == Cardinality({i \in 1..Len(words) : words[i] = w})

(* C3, amended: calculateWordOverlap counts the entries of the catalog     *)
(* name's token list, each occurrence of a repeated token counted, that    *)
(* are in the extracted text's token set; repeats in the extracted text    *)
(* count once.                                                             *)
C3_CountsCatalogOccurrences ==
    call.fn = "calculateWordOverlap" =>
        LET common == TokenSet(call.args[1]) \cap TokenSet(call.args[2])
            words2 == getSignificantWords(call.args[2])
        IN  call.ret = SumOver(common, [w \in common |-> Occurrences(w, words2)])

\* a catalog name that repeats a token: the result exceeds the intersection
C3_Witness ==
    /\ call.fn = "calculateWordOverlap"
    /\ call.args = <<<<"S","c","r"," ","M","a","m","m","o"," ","B","i","l","a","t">>, <<"M","a","m","m","o","g","r","a","m"," ","S","c","r","e","e","n","i","n","g"," ","B","i","l","a","t","e","r","a","l"," ","(","M","a","m","m","o",")">>>>
    /\ call.ret = 4
    /\ SharedTokens(call.args[1], call.args[2]) = 3

-----------------------------------------------------------------------------
SameKey(a, b) == a.cpt = b.cpt /\ a.name = b.name
RowsOfKey(row) == {k \in DOMAIN studies : SameKey(studies[k], row)}

Aggregates(rows) ==
    {<<rows[j].cpt, rows[j].name, rows[j].quantity, rows[j].confidence>> :
        j \in DOMAIN rows}
Swapped(list, i) == [list EXCEPT ![i] = list[i + 1], ![i + 1] = list[i]]

-----------------------------------------------------------------------------
WithoutKey(list, row) ==
    LET Other(s) == ~SameKey(s, row)
    IN  SelectSeq(list, Other)

(* C5: deleting a row in grouped mode removes exactly the rows of the list *)
(* whose (code, name) is that of the deleted row; the other rows stay, in  *)
(* their order.                                                            *)
C5_AsClaimed ==
    [][\A k \in 1..Len(displayStudies) :
          (isGrouped /\ handleDelete(k)) =>
              studies' = WithoutKey(studies, displayStudies[k])]_vars

-----------------------------------------------------------------------------
WithoutIndex(list, k) == SubSeq(list, 1, k - 1) \o SubSeq(list, k + 1, Len(list))

(* C6: deleting a row in ungrouped mode removes that one row and leaves    *)
(* the others unchanged, in their order, in every list reached by uploads  *)
(* and deletions.                                                          *)
C6_AsClaimed ==
    [][\A k \in 1..Len(displayStudies) :
          (~isGrouped /\ handleDelete(k)) => studies' = WithoutIndex(studies, k)]_vars

-----------------------------------------------------------------------------
RvuSum == SumOver(DOMAIN studies, [k \in DOMAIN studies |->
                                      studies[k].rvu * studies[k].quantity])
QuantitySum == SumOver(DOMAIN studies, [k \in DOMAIN studies |-> studies[k].quantity])

AggregatesAgree ==
    /\ results.totalRVU = RvuSum
    /\ results.studyCount = QuantitySum
    /\ results.totalEarnings = RvuSum * rvuRate
    /\ totals.rvu = RvuSum
    /\ totals.qty = QuantitySum

(* C7: in every state totalRVU is the sum of rvu * quantity over the list, *)
(* studyCount the sum of quantity and totalEarnings totalRVU * rvuRate     *)
(* (the table's footer totals agree), and a change of the display mode     *)
(* changes none of them.                                                   *)
C7_Aggregates ==
    /\ []AggregatesAgree
    /\ [][isGrouped' # isGrouped => (results' = results /\ totals' = totals)]_vars

\* the display mode and the rate were changed over a list with a quantity
\* above 1
C7_Witness ==
    /\ isGrouped
    /\ rvuRate = 0
    /\ results.totalRVU > 0
    /\ results.studyCount > Len(studies)
    /\ Len(displayStudies) < Len(studies)

-----------------------------------------------------------------------------
(* C8: normalizeToken(normalizeToken(t)) = normalizeToken(t) for every     *)
(* token t, and no canonical form of ABBREVIATIONS is a key that maps to   *)
(* another value.                                                          *)
C8_AsClaimed ==
    /\ \A k \in AbbreviationKeys :
          ABBREVIATIONS[k] \in AbbreviationKeys =>
              ABBREVIATIONS[ABBREVIATIONS[k]] = ABBREVIATIONS[k]
    /\ call.fn = "normalizeToken" => normalizeToken(call.ret) = call.ret

-----------------------------------------------------------------------------
(* C9: for every key of ABBREVIATIONS, in either case and with punctuation *)
(* around or inside it in the source text, the tokens of the text contain  *)
(* the key's canonical form.                                               *)
C9_AsClaimed ==
    call.fn = "getSignificantWords" =>
        \A k \in AbbreviationKeys :
            call.args[1] \in VariantsOf(k) => ABBREVIATIONS[k] \in Range(call.ret)

-----------------------------------------------------------------------------
NameMatches(ex) == {e \in 1..Len(db) : SameStrippedName(ex, db[e])}

(* C10: an item no entry meets the overlap threshold for is matched to the *)
(* first entry with the same stripped name; with none it is dropped        *)
(* without an error being set, and every other item of the response that   *)
(* matches is still appended.                                              *)
C10_AsClaimed ==
    AfterMatched =>
        /\ error = NoError
        /\ \A i \in 1..Len(Extracted) :
              IF \E e \in 1..Len(db) : MeetsThreshold(Extracted[i], db[e])
              THEN RowsFor(i) # {}
              ELSE IF NameMatches(Extracted[i]) # {}
              THEN /\ Cardinality(RowsFor(i)) = 1
                   /\ \A k \in RowsFor(i) :
                         IsEntry(studies[k], db[SetMin(NameMatches(Extracted[i]))])
              ELSE RowsFor(i) = {}

-----------------------------------------------------------------------------
\* no key in either place of the environment
NoKeyConfigured(env) == env.vite = "none" /\ env.process # "key"

\* the service answered with anything but an object holding a "studies" array
NoStudiesArray(sdk) ==
    \/ sdk.transport = "rejects"
    \/ sdk.text.kind # "json"
    \/ sdk.text.top # "object"
    \/ sdk.text.studies.type # "array"

(* C11: performOCRAndMatch never rejects and never sends more than one     *)
(* request; its result is always a list; without an API key the result is  *)
(* the empty list and no request is sent; on a transport failure and on an *)
(* unparsable or malformed response the result is the empty list.          *)
C11_AsClaimed ==
    call.fn = "performOCRAndMatch" =>
        LET env == call.args[2]
            sdk == call.args[3]
            ret == call.ret
        IN  /\ ret.settled = "resolved"
            /\ ret.value.type = "array"
            /\ ret.requests <= 1
            /\ NoKeyConfigured(env) => (ret.requests = 0 /\ ret.value = EmptyList)
            /\ NoStudiesArray(sdk) => ret.value = EmptyList

-----------------------------------------------------------------------------
\* a file that is neither an image nor HEIC/HEIF by its name
IsNotAnImage(file) ==
    file.type \notin {"image/png", "image/jpeg", "image/heic", "image/heif"}
        /\ file.ext \notin {"heic", "heif"}

\* the step leaves the list and the image as they are, sets a message, ends
\* the processing state and leaves no call on its way to the extraction
AbortsWith(message) ==
    /\ error' = message
    /\ studies' = studies
    /\ lastImage' = lastImage
    /\ isScanning' = FALSE

(* C12: processFile given a file that is not an image, and a HEIC/HEIF     *)
(* conversion that fails, set the inline message, leave the study list and *)
(* lastImage unchanged, reset isScanning, and the call never reaches the   *)
(* extraction: it is not among the calls in flight afterwards.             *)
C12_InputErrorsAbort ==
    [][ /\ \A file \in Files, via \in {"input", "drop"} :
              (IsNotAnImage(file) /\ processFile(file, via)) =>
                  (AbortsWith(TypeMessage) /\ uploads' = uploads)
        /\ \A u \in uploads :
              heic2anySettled(u, FALSE) =>
                  (AbortsWith(HeicError) /\ uploads' = uploads \ {u})
      ]_vars

\* a conversion failed after an upload that had put rows in the list
C12_Witness ==
    /\ error = HeicError
    /\ Len(studies) > 0
    /\ lastImage # NoImage
    /\ ~isScanning
    /\ uploads = {}

-----------------------------------------------------------------------------
\* the rows a response adds: one per item that has an entry, in the order of
\* the response
RowItems(extracted) ==
    SelectSeq(extracted, LAMBDA ex : bestMatchTable[db][ex] > 0)
AppendsBatch(extracted) ==
    /\ Len(studies') = Len(studies) + Len(RowItems(extracted))
    /\ SubSeq(studies', 1, Len(studies)) = studies
    /\ \A j \in 1..Len(RowItems(extracted)) :
          /\ studies'[Len(studies) + j].originalText = RowItems(extracted)[j].originalText
          /\ studies'[Len(studies) + j].confidence = RowItems(extracted)[j].confidence

\* the deletion asked for on row k of the table
RemovesRowsOf(k) ==
    studies' = IF isGrouped THEN WithoutKey(studies, displayStudies[k])
               ELSE WithoutIndex(studies, k)

(* C13: while an upload is in flight, a completion appends the matched     *)
(* rows of its response to the list as it is then, contiguous and in the   *)
(* order of the response, and a deletion removes the rows it was asked to  *)
(* remove and no other: no row of one operation is lost or brought back by *)
(* another.                                                                *)
C13_AsClaimed ==
    [][ started > 1 =>
          /\ \A u \in uploads, extracted \in Batches :
                \A t \in 0..MaxNow, rnds \in [1..Len(extracted) -> RandomValues] :
                    matched(u, extracted, t, rnds) => AppendsBatch(extracted)
          /\ \A k \in 1..Len(displayStudies) :
                (uploads # {} /\ handleDelete(k)) => RemovesRowsOf(k)
      ]_vars

-----------------------------------------------------------------------------
\* a is b with some of its rows taken out: the rows left are as they were,
\* in their order
RECURSIVE IsSubsequence(_, _)
IsSubsequence(a, b) ==
    IF a = << >> THEN TRUE
    ELSE IF b = << >> THEN FALSE
    ELSE IF Head(a) = Head(b) THEN IsSubsequence(Tail(a), Tail(b))
    ELSE IsSubsequence(a, Tail(b))

\* b is a followed by further rows
IsPrefix(a, b) == Len(a) <= Len(b) /\ SubSeq(b, 1, Len(a)) = a

IsMatchedStep ==
    \E u \in uploads, extracted \in Batches :
        \E t \in 0..MaxNow, rnds \in [1..Len(extracted) -> RandomValues] :
            matched(u, extracted, t, rnds)

(* C14: in every step the rows of the list are rows it had before, with    *)
(* every field as it was, or rows added at its end by the matching step;   *)
(* a step that changes the grouped mode or the grouped view leaves the     *)
(* list as it is.                                                          *)
C14_RowsKeepTheirFields ==
    [][ /\ IsSubsequence(studies', studies) \/ IsPrefix(studies, studies')
        /\ Len(studies') > Len(studies) => IsMatchedStep
        /\ isGrouped' # isGrouped => studies' = studies
      ]_vars

\* grouped mode over a list whose first row was the second item of its
\* response: the row before it was deleted
C14_Witness ==
    /\ isGrouped
    /\ Len(studies) > 1
    /\ studies[1].id[2] = 1
    /\ displayStudies # studies

-----------------------------------------------------------------------------
StudiesEntryCurrent == storage'.rad_studies = Stored(stringify(studies'))
MetadataEntriesCurrent ==
    /\ storage'.rad_doctorName = Stored(metadata'.doctorName)
    /\ storage'.rad_groupName = Stored(metadata'.groupName)
    /\ storage'.rad_hospitalName = Stored(metadata'.hospitalName)
\* the failure went to the console and the application goes on
LoggedOnly == lastSave' = "warned" /\ running' /\ error' = error

(* C15: a step that changes the study list or a report field rewrites the  *)
(* entries of localStorage with the new values when storage has room, and  *)
(* when the write fails the failure is logged, no error is shown and the   *)
(* application keeps running with the state the step gave it.              *)
C15_AsClaimed ==
    [][ /\ studies' # studies =>
              IF quota = "free" THEN StudiesEntryCurrent ELSE LoggedOnly
        /\ metadata' # metadata =>
              IF quota = "free" THEN MetadataEntriesCurrent ELSE LoggedOnly
      ]_vars

-----------------------------------------------------------------------------
(* C16 as stated: in grouped mode no row of displayStudies has an          *)
(* originalText, whether it stands for several rows of the list or for one.*)
C16_AsClaimed ==
    isGrouped => \A k \in DOMAIN displayStudies :
                    displayStudies[k].originalText = undefined

(* C16: in grouped mode a row of displayStudies that merges several rows   *)
(* of the list has no originalText, a row that stands for a single row of  *)
(* the list is a copy of it, originalText included, and the description    *)
(* shown for either is the catalog name.                                   *)
C16_MergedRowsLoseText ==
    isGrouped =>
        \A k \in DOMAIN displayStudies :
            LET row == displayStudies[k]
                of == RowsOfKey(row)
            IN  /\ Cardinality(of) > 1 => row.originalText = undefined
                /\ Cardinality(of) = 1 => \A j \in of : row = studies[j]
                /\ descriptionCell(row, isGrouped) = row.name

\* a grouped view of two keys, one of them with a single row of the list
\* that carries its text
C16_Witness ==
    /\ isGrouped
    /\ Len(displayStudies) = 2
    /\ \E k \in DOMAIN displayStudies :
          /\ Cardinality(RowsOfKey(displayStudies[k])) = 1
          /\ displayStudies[k].originalText = <<"C","T"," ","H","e","a","d"," ","W","/","O"," ","C","o","n","t","r","a","s","t">>

-----------------------------------------------------------------------------
InFlight(n) == \E u \in uploads : u.n = n

(* C17: when every awaited operation settles, an upload in flight          *)
(* eventually is over, the processing state once entered is eventually     *)
(* left, and whatever error was set, the next upload can be started and    *)
(* any row shown can be deleted.                                           *)
C17_UploadsEnd ==
    /\ \A n \in 1..MaxUploads : InFlight(n) ~> ~InFlight(n)
    /\ isScanning ~> ~isScanning
    /\ [](error # NoError =>
            /\ started < MaxUploads => ENABLED processFile(PngFile, "drop")
            /\ \A k \in 1..Len(displayStudies) : ENABLED handleDelete(k))

\* both uploads are over, one with its rows in the list, one with the
\* analysis error
C17_Witness ==
    /\ started = MaxUploads
    /\ uploads = {}
    /\ ~isScanning
    /\ error = AnalysisError
    /\ Len(studies) > 0

-----------------------------------------------------------------------------
\* the first, in catalog order, of the entries that meet their threshold with
\* the highest score
FirstOfBest(ex) ==
    CHOOSE e \in BestAccepted(ex) : \A f \in BestAccepted(ex) : e <= f

(* C18: when several entries meet their threshold with the same highest    *)
(* score for an item, the row appended for the item is that of the first   *)
(* of them in catalog order.                                               *)
C18_FirstInCatalogOrder ==
    (AfterMatched /\ error # AnalysisError) =>
        \A i \in 1..Len(Extracted) :
            (HasText(Extracted[i]) /\ BestAccepted(Extracted[i]) # {}) =>
                /\ Cardinality(RowsFor(i)) = 1
                /\ \A k \in RowsFor(i) :
                      IsEntry(studies[k], db[FirstOfBest(Extracted[i])])

\* "CT US Abdomen" scores 2 against US Abdomen (entry 1 of the catalog) and
\* against CT Abdomen (entry 4), each with threshold 2: the row is US Abdomen
C18_Witness ==
    /\ AfterMatched
    /\ db = CatalogB
    /\ Extracted = <<ItCtUs>>
    /\ BestAccepted(ItCtUs) = {1, 4}
    /\ Score(ItCtUs, UsAbd) = 2
    /\ Score(ItCtUs, CtAbd) = 2
    /\ Len(studies) = 1
    /\ IsEntry(studies[1], UsAbd)

-----------------------------------------------------------------------------
Pairs(list) == {<<list[k].cpt, list[k].name>> : k \in DOMAIN list}
\* the rows of the list folded into row r of the grouped view
MergedInto(r) == {k \in DOMAIN studies : groupKey(studies[k]) = groupKey(r)}

(* C19: in grouped mode displayStudies has one row for each (cpt, name)    *)
(* pair of the list, the rows folded into a grouped row all have its cpt   *)
(* and its name, also with '-' in a cpt or a name, and deleting a grouped  *)
(* row removes every row of the list that was folded into it.              *)
C19_AsClaimed ==
    /\ [](isGrouped =>
            /\ Len(displayStudies) = Cardinality(Pairs(studies))
            /\ \A j \in DOMAIN displayStudies :
                  \A k \in MergedInto(displayStudies[j]) :
                      SameKey(studies[k], displayStudies[j]))
    /\ [][\A j \in 1..Len(displayStudies) :
            (isGrouped /\ handleDelete(j)) =>
                \A k \in MergedInto(displayStudies[j]) :
                    \A i \in DOMAIN studies' : studies'[i] # studies[k]]_vars

-----------------------------------------------------------------------------
GroupedQuantity ==
    SumOver(DOMAIN displayStudies,
            [j \in DOMAIN displayStudies |-> displayStudies[j].quantity])
GroupedSubtotals ==
    SumOver(DOMAIN displayStudies,
            [j \in DOMAIN displayStudies |-> subtotalOf(displayStudies[j])])

(* C20: in grouped mode the quantities of the rows shown add up to         *)
(* studyCount and to the footer's quantity, and their subtotals            *)
(* rvu * quantity add up to totalRVU and to the footer's RVU.              *)
C20_AsClaimed ==
    isGrouped =>
        /\ GroupedQuantity = results.studyCount
        /\ GroupedQuantity = totals.qty
        /\ GroupedSubtotals = results.totalRVU
        /\ GroupedSubtotals = totals.rvu

-----------------------------------------------------------------------------
FromCatalog(row) == \E e \in 1..Len(db) : IsEntry(row, db[e])
\* the quantity the response gave, 1 where it gave none or zero
ExtractedQuantity(ex) ==
    IF ex.quantity = MissingQuantity \/ ex.quantity = 0 THEN 1 ELSE ex.quantity

(* C21: every row of the list has the cpt, the name and the rvu of one     *)
(* entry of the catalog, whatever cpt and name its item came with, and the *)
(* row built for an item of the response has the item's quantity, or 1     *)
(* where the item has none or zero.                                        *)
C21_RowsFromCatalog ==
    /\ \A k \in DOMAIN studies : FromCatalog(studies[k])
    /\ AfterMatched =>
          \A i \in 1..Len(Extracted) :
              \A k \in RowsFor(i) :
                  studies[k].quantity = ExtractedQuantity(Extracted[i])

\* an item with another code, no quantity and a text that meets no
\* threshold, matched by its name: the row has the entry's code and quantity 1
C21_Witness ==
    /\ AfterMatched
    /\ Extracted = <<ItNoQty, ItUsLtd>>
    /\ Len(studies) = 2
    /\ ItNoQty.cpt # CtHead.cpt
    /\ IsEntry(studies[1], CtHead)
    /\ studies[1].quantity = 1
    /\ studies[2].quantity = 1

-----------------------------------------------------------------------------
(* C22: in every state with an upload in flight isScanning is true, and a  *)
(* step that makes isScanning false leaves no upload in flight.            *)
C22_AsClaimed ==
    /\ [](uploads # {} => isScanning)
    /\ [][(isScanning /\ ~isScanning') => uploads' = {}]_vars

-----------------------------------------------------------------------------
\* the entry rad_studies holds the text of a list, as a save effect wrote it
HoldsList(entry) ==
    entry.type = "string" /\ entry.text # NotJson /\ entry.text # NotAList
\* the rows of the list the text stands for
ListOf(text) ==
    [i \in 1..Len(text) |->
        IF "originalText" \in DOMAIN text[i] THEN text[i]
        ELSE [id |-> text[i].id, cpt |-> text[i].cpt, name |-> text[i].name,
              rvu |-> text[i].rvu, quantity |-> text[i].quantity,
              confidence |-> text[i].confidence, originalText |-> undefined]]

(* C23: when rad_studies holds the text of a list L at the mount, the list *)
(* in memory after the mount is L and rad_studies holds the text of L      *)
(* again; a clear-all with no upload in flight leaves the list empty and   *)
(* rad_studies with the text of the empty list, or without an entry.       *)
C23_RestoreRoundTrip ==
    [][ /\ (mount /\ HoldsList(storage.rad_studies)) =>
              /\ running'
              /\ studies' = ListOf(storage.rad_studies.text)
              /\ storage'.rad_studies = storage.rad_studies
        /\ (clearAll /\ uploads = {}) =>
              /\ studies' = << >>
              /\ storage'.rad_studies \in {NoEntry, Stored(<< >>)}
      ]_vars

\* the list of an earlier session, with a row that has no originalText, is
\* in memory and in the storage again, in a storage with no room left
C23_Witness ==
    /\ running
    /\ started = 0
    /\ quota = "full"
    /\ Len(studies) = 2
    /\ studies[1].originalText = undefined
    /\ studies = NamedRows
    /\ storage.rad_studies = Stored(stringify(NamedRows))
    /\ storage.rad_studies # Stored(NamedRows)

====
